---- MODULE Spec2Model ----
(***************************************************************************)
(* Model of src/dns.rs: TrustDnsResolver, a hyper DNS Service that builds  *)
(* its trust-dns AsyncResolver lazily, on the first call, behind a tokio    *)
(* Mutex<State> shared by all clones of the adapter.                        *)
(***************************************************************************)
EXTENDS Integers, Sequences, FiniteSets, TLC

\* ---- bounds of the model ----
NumCalls == 2        \* resolve calls (futures returned by call())
MaxCells == 1        \* adapters made by new / with_config, each with its Arc<Mutex<State>>
MaxHandles == 2      \* TrustDnsResolver values (originals and clones)
MaxEngines == 2      \* AsyncResolver instances ever built

Calls == 1..NumCalls
Cells == 1..(MaxCells + 1)   \* cell ids; the constructors never use the last one
Handles == 1..MaxHandles
Names == {"good.test", "bad.test"}
ExplicitConfigs == {"cfgA"}
SysConfig == "system"

\* The engine is an external collaborator: lookup_ip either fails or yields the
\* records of the name.
EngineRecords(n) == IF n = "good.test" THEN <<"10.0.0.1", "10.0.0.2">> ELSE <<"10.0.0.3">>
SeqToSet(q) == {q[i] : i \in 1..Len(q)}
EngineAddrs(n) == SeqToSet(EngineRecords(n))

NoCall == 0
NoCell == 0
NoResolver == 0
NoHandle == 0
ByNew == 0          \* marks TrustDnsResolver::new in confUsers

VARIABLES
  sysConf,      \* SYSTEM_CONF: "unread" (lazy_static not forced), "ok", "err"
  sysReads,     \* how many times read_system_conf() ran
  confUsers,    \* who dereferenced SYSTEM_CONF: ByNew or the cell of a call
  lastNew,      \* return value of the latest TrustDnsResolver::new(): "none", "ok", "err"
  cellState,    \* cell -> State behind the Mutex
  handleCell,   \* handle -> the cell its Arc points to (NoCell: handle not created)
  handleRoot,   \* handle -> the handle new / with_config returned that it is a clone of
  lockHolder,   \* cell -> call holding the MutexGuard, or NoCall
  waiters,      \* cell -> FIFO queue of calls suspended in lock().await
  pc,           \* call -> position in the async block of call()
  callRoot,     \* call -> the adapter call() is invoked on: the handle new / with_config returned
  callCell,     \* call -> cell of the adapter clone moved into the future
  callName,     \* call -> hostname argument
  captured,     \* call -> local `resolver` bound by the match (engine handle)
  result,       \* call -> output of the future
  attempts,     \* call -> engine constructions this call started
  lookups,      \* call -> lookup_ip invocations this call made
  sawFail,      \* call -> another call's construction failed while this one waited for the lock
  engines,      \* sequence of engines built; the handle is the index
  iter          \* call -> the LookupIpIntoIter it returned, and what iterating it gave

vars == <<sysConf, sysReads, confUsers, lastNew, cellState, handleCell, handleRoot, lockHolder,
          waiters, pc, callRoot, callCell, callName, captured, result, attempts, lookups,
          sawFail, engines, iter>>

\* ---- enum State (uniform records) ----
NoState == [tag |-> "None", config |-> "-", resolver |-> NoResolver]
StateInit == [tag |-> "Init", config |-> "-", resolver |-> NoResolver]
StateInitWithConfig(cfg) == [tag |-> "InitWithConfig", config |-> cfg, resolver |-> NoResolver]
StateReady(h) == [tag |-> "Ready", config |-> "-", resolver |-> h]

NoResult == [kind |-> "None", addrs |-> {}]
OkResult(as) == [kind |-> "Ok", addrs |-> as]
ErrResult(k) == [kind |-> k, addrs |-> {}]

\* ---- LookupIpIntoIter: the records and the index of the next one ----
NoIter == [records |-> <<>>, index |-> 0]

\* lookup.into_iter()
IntoIterSkipFirst(recs) == [records |-> recs, index |-> 1]

IntoIter(recs) == [records |-> recs, index |-> 0]

\* what calling Iterator::next until None yields: records[index..]
Yield(it) == SubSeq(it.records, it.index + 1, Len(it.records))

\* the iterator after that: its index is at the end
Drain(it) == [it EXCEPT !.index = Len(it.records)]

Init ==
  /\ sysConf = "unread"
  /\ sysReads = 0
  /\ confUsers = {}
  /\ lastNew = "none"
  /\ cellState = [a \in Cells |-> NoState]
  /\ handleCell = [h \in Handles |-> NoCell]
  /\ handleRoot = [h \in Handles |-> NoHandle]
  /\ lockHolder = [a \in Cells |-> NoCall]
  /\ waiters = [a \in Cells |-> <<>>]
  /\ pc = [c \in Calls |-> "idle"]
  /\ callRoot = [c \in Calls |-> NoHandle]
  /\ callCell = [c \in Calls |-> NoCell]
  /\ callName = [c \in Calls |-> "-"]
  /\ captured = [c \in Calls |-> NoResolver]
  /\ result = [c \in Calls |-> NoResult]
  /\ attempts = [c \in Calls |-> 0]
  /\ lookups = [c \in Calls |-> 0]
  /\ sawFail = [c \in Calls |-> FALSE]
  /\ engines = <<>>
  /\ iter = [c \in Calls |-> NoIter]

\* ---- helpers ----
FreeCells == {a \in Cells : cellState[a].tag = "None"}
\* new / with_config can still be invoked within the bound
CanConstruct == Cardinality({a \in Cells : cellState[a].tag # "None"}) < MaxCells

FreeHandles == {h \in Handles : handleCell[h] = NoCell}
FirstFree(S) == CHOOSE x \in S : \A y \in S : x <= y

RemoveFrom(q, c) == SelectSeq(q, LAMBDA x : x # c)

EnginesOf(a) == {h \in 1..Len(engines) : engines[h].cell = a}

\* SYSTEM_CONF deref: lazy_static runs read_system_conf() on the first deref only;
\* `outcome` is what the read yields if it runs now.
ForceSysConfRetry(outcome) == IF sysConf = "ok" THEN sysConf ELSE outcome

ForceSysConf(outcome) == IF sysConf = "unread" THEN outcome ELSE sysConf
SysReadsAfterDeref == IF sysConf = "unread" THEN sysReads + 1 ELSE sysReads

\* MutexGuard drop on return or on drop of the future: releases the lock of cell a if call c holds it.
ReleasedNever(a, c) == lockHolder

Released(a, c) == IF lockHolder[a] = c THEN [lockHolder EXCEPT ![a] = NoCall] ELSE lockHolder

\* ---- TrustDnsResolver::new ----
NewAllocatesAlways(conf) == TRUE

NewAllocates(conf) == conf = "ok"

New(outcome) ==
  /\ CanConstruct /\ FreeHandles # {}
  /\ sysConf' = ForceSysConf(outcome)
  /\ sysReads' = SysReadsAfterDeref
  /\ confUsers' = confUsers \cup {ByNew}
  /\ IF NewAllocates(sysConf')
       THEN /\ cellState' = [cellState EXCEPT ![FirstFree(FreeCells)] = StateInit]
            /\ handleCell' = [handleCell EXCEPT ![FirstFree(FreeHandles)] = FirstFree(FreeCells)]
            /\ handleRoot' = [handleRoot EXCEPT ![FirstFree(FreeHandles)] = FirstFree(FreeHandles)]
            /\ lastNew' = "ok"
       ELSE /\ lastNew' = "err"
            /\ UNCHANGED <<cellState, handleCell, handleRoot>>
  /\ UNCHANGED <<lockHolder, waiters, pc, callCell, callName, captured, result,
                 attempts, lookups, sawFail, engines>>
  /\ UNCHANGED callRoot
  /\ UNCHANGED iter

\* ---- TrustDnsResolver::with_config ----
WithConfigEager(cfg) ==
  /\ CanConstruct /\ FreeHandles # {}
  /\ Len(engines) < MaxEngines
  /\ engines' = Append(engines, [cell |-> FirstFree(FreeCells), config |-> cfg])
  /\ cellState' = [cellState EXCEPT ![FirstFree(FreeCells)] = StateReady(Len(engines) + 1)]
  /\ handleCell' = [handleCell EXCEPT ![FirstFree(FreeHandles)] = FirstFree(FreeCells)]
  /\ handleRoot' = [handleRoot EXCEPT ![FirstFree(FreeHandles)] = FirstFree(FreeHandles)]
  /\ UNCHANGED <<sysConf, sysReads, confUsers, lastNew, lockHolder, waiters, pc,
                 callCell, callName, captured, result, attempts, lookups, sawFail>>
  /\ UNCHANGED callRoot
  /\ UNCHANGED iter

WithConfig(cfg) ==
  /\ CanConstruct /\ FreeHandles # {}
  /\ cellState' = [cellState EXCEPT ![FirstFree(FreeCells)] = StateInitWithConfig(cfg)]
  /\ handleCell' = [handleCell EXCEPT ![FirstFree(FreeHandles)] = FirstFree(FreeCells)]
  /\ handleRoot' = [handleRoot EXCEPT ![FirstFree(FreeHandles)] = FirstFree(FreeHandles)]
  /\ UNCHANGED <<sysConf, sysReads, confUsers, lastNew, lockHolder, waiters, pc,
                 callCell, callName, captured, result, attempts, lookups, sawFail, engines>>
  /\ UNCHANGED callRoot
  /\ UNCHANGED iter

\* ---- #[derive(Clone)]: a new handle on the same Arc ----
CloneDeep(h) ==
  /\ handleCell[h] # NoCell
  /\ FreeHandles # {} /\ FreeCells # {}
  /\ cellState' = [cellState EXCEPT ![FirstFree(FreeCells)] = cellState[handleCell[h]]]
  /\ handleCell' = [handleCell EXCEPT ![FirstFree(FreeHandles)] = FirstFree(FreeCells)]
  /\ handleRoot' = [handleRoot EXCEPT ![FirstFree(FreeHandles)] = handleRoot[h]]
  /\ UNCHANGED <<sysConf, sysReads, confUsers, lastNew, lockHolder, waiters, callRoot,
                 pc, callCell, callName, captured, result, attempts, lookups, sawFail, engines>>
  /\ UNCHANGED iter

Clone(h) ==
  /\ handleCell[h] # NoCell
  /\ FreeHandles # {}
  /\ handleCell' = [handleCell EXCEPT ![FirstFree(FreeHandles)] = handleCell[h]]
  /\ handleRoot' = [handleRoot EXCEPT ![FirstFree(FreeHandles)] = handleRoot[h]]
  /\ UNCHANGED <<sysConf, sysReads, confUsers, lastNew, cellState, lockHolder, waiters, callRoot,
                 pc, callCell, callName, captured, result, attempts, lookups, sawFail, engines>>
  /\ UNCHANGED iter

\* ---- Service::poll_ready ----
PollResultWhenReady(st) == IF st.tag = "Ready" THEN "ReadyOk" ELSE "Pending"

PollResult(st) == "ReadyOk"

\* the caller of slot c polls readiness on handle h before it calls
PollReady(c, h) ==
  /\ pc[c] \in {"idle", "pending"}
  /\ \A d \in Calls : d < c => pc[d] \notin {"idle", "ready", "pending"}
  /\ handleCell[h] # NoCell
  /\ pc' = [pc EXCEPT ![c] = IF PollResult(cellState[handleCell[h]]) = "ReadyOk"
                                THEN "ready" ELSE "pending"]
  /\ UNCHANGED <<sysConf, sysReads, confUsers, lastNew, cellState, handleCell, handleRoot,
                 lockHolder, waiters, callRoot, callCell, callName, captured, result,
                 attempts, lookups, sawFail, engines, iter>>

\* ---- Service::call: clone self, box the future, first poll reaches lock().await ----
Call(c, h, n) ==
  /\ pc[c] \in {"idle", "ready"}
  /\ \A d \in Calls : d < c => pc[d] \notin {"idle", "ready", "pending"}   \* call ids are handed out in order
  /\ handleCell[h] # NoCell
  /\ pc' = [pc EXCEPT ![c] = "locking"]
  /\ callRoot' = [callRoot EXCEPT ![c] = handleRoot[h]]
  /\ callCell' = [callCell EXCEPT ![c] = handleCell[h]]
  /\ callName' = [callName EXCEPT ![c] = n]
  /\ waiters' = [waiters EXCEPT ![handleCell[h]] = Append(@, c)]
  /\ UNCHANGED <<sysConf, sysReads, confUsers, lastNew, cellState, handleCell, lockHolder,
                 captured, result, attempts, lookups, sawFail, engines>>
  /\ UNCHANGED handleRoot
  /\ UNCHANGED iter

\* ---- one poll of the future from lock().await to its next await ----
\* (the tokio Mutex is FIFO; between two awaits the future only touches state the
\* guard protects, and SYSTEM_CONF, whose deref is atomic)

\* Does the arm for state st dereference SYSTEM_CONF (new_resolver) ?
UsesSysConfAlways(st) == st.tag # "Ready"

UsesSysConf(st) == st.tag = "Init"

\* The (config, opts) the arm for state st hands to AsyncResolver::new.
ConfigFor(st) == IF st.tag = "Init" THEN SysConfig ELSE st.config

\* Does the arm for state st build an engine ?
NeedsConstructionAlways(st) == TRUE

NeedsConstruction(st) == st.tag # "Ready"

\* lock().await returns the guard
LockedNotHeld(a, c) == lockHolder

Locked(a, c) == [lockHolder EXCEPT ![a] = c]

\* drop(lock), applied to the lock table lk in which c holds the guard of a
LockAfterDropKept(lk, a, c) == lk

LockAfterDrop(lk, a, c) == IF lk[a] = c THEN [lk EXCEPT ![a] = NoCall] ELSE lk

\* lock().await can complete for cell a
LockFreeAlways(a) == TRUE

LockFree(a) == lockHolder[a] = NoCall

Acquire(c, outcome) ==
  LET a == callCell[c]
      st == cellState[a]
  IN
  /\ pc[c] = "locking"
  /\ LockFree(a)
  /\ Head(waiters[a]) = c
  /\ waiters' = [waiters EXCEPT ![a] = Tail(@)]
  /\ IF ~NeedsConstruction(st)
       THEN \* State::Ready(resolver) => resolver.clone(); drop(lock); lookup_ip(..).await
            /\ captured' = [captured EXCEPT ![c] = st.resolver]
            /\ lockHolder' = LockAfterDrop(Locked(a, c), a, c)
            /\ lookups' = [lookups EXCEPT ![c] = @ + 1]
            /\ pc' = [pc EXCEPT ![c] = "lookup"]
            /\ UNCHANGED <<sysConf, sysReads, confUsers, result, attempts>>
       ELSE IF UsesSysConf(st)
       THEN \* new_resolver: SYSTEM_CONF.as_ref().expect(..)
            /\ sysConf' = ForceSysConf(outcome)
            /\ sysReads' = SysReadsAfterDeref
            /\ confUsers' = confUsers \cup {a}
            /\ IF sysConf' = "err"
                 THEN \* expect panics; unwinding drops the guard
                      /\ pc' = [pc EXCEPT ![c] = "panicked"]
                      /\ result' = [result EXCEPT ![c] = ErrResult("Panic")]
                      /\ lockHolder' = LockAfterDrop(Locked(a, c), a, c)
                      /\ UNCHANGED <<attempts, captured, lookups>>
                 ELSE \* AsyncResolver::new(..).await
                      /\ pc' = [pc EXCEPT ![c] = "constructing"]
                      /\ attempts' = [attempts EXCEPT ![c] = @ + 1]
                      /\ lockHolder' = Locked(a, c)
                      /\ UNCHANGED <<result, captured, lookups>>
       ELSE \* new_resolver_with_config: AsyncResolver::new(..).await
            /\ pc' = [pc EXCEPT ![c] = "constructing"]
            /\ attempts' = [attempts EXCEPT ![c] = @ + 1]
            /\ lockHolder' = Locked(a, c)
            /\ UNCHANGED <<sysConf, sysReads, confUsers, result, captured, lookups>>
  /\ UNCHANGED <<lastNew, cellState, handleCell, callCell, callName, sawFail, engines>>
  /\ UNCHANGED <<handleRoot, callRoot>>
  /\ UNCHANGED iter

\* ---- AsyncResolver::new(..).await returns Ok: *lock = State::Ready(resolver.clone());
\* drop(lock); lookup_ip(..).await ----
StoredAfterConstruct(st, h) == StateReady(h)

ConstructOkLocked(c) ==
  LET a == callCell[c]
      h == Len(engines) + 1
  IN
  /\ pc[c] = "constructing"
  /\ Len(engines) < MaxEngines
  /\ engines' = Append(engines, [cell |-> a, config |-> ConfigFor(cellState[a])])
  /\ cellState' = [cellState EXCEPT ![a] = StoredAfterConstruct(@, h)]
  /\ captured' = [captured EXCEPT ![c] = h]
  /\ lookups' = [lookups EXCEPT ![c] = @ + 1]
  /\ pc' = [pc EXCEPT ![c] = "lookup"]
  /\ UNCHANGED <<sysConf, sysReads, confUsers, lastNew, handleCell, waiters, lockHolder,
                 callCell, callName, result, attempts, sawFail>>
  /\ UNCHANGED <<handleRoot, callRoot>>
  /\ UNCHANGED iter

ConstructOk(c) ==
  LET a == callCell[c]
      h == Len(engines) + 1
  IN
  /\ pc[c] = "constructing"
  /\ Len(engines) < MaxEngines
  /\ engines' = Append(engines, [cell |-> a, config |-> ConfigFor(cellState[a])])
  /\ cellState' = [cellState EXCEPT ![a] = StoredAfterConstruct(@, h)]
  /\ captured' = [captured EXCEPT ![c] = h]
  /\ lockHolder' = LockAfterDrop(lockHolder, a, c)
  /\ lookups' = [lookups EXCEPT ![c] = @ + 1]
  /\ pc' = [pc EXCEPT ![c] = "lookup"]
  /\ UNCHANGED <<sysConf, sysReads, confUsers, lastNew, handleCell, waiters,
                 callCell, callName, result, attempts, sawFail>>
  /\ UNCHANGED <<handleRoot, callRoot>>
  /\ UNCHANGED iter

\* ---- AsyncResolver::new(..).await returns Err: `?` returns, the guard is dropped ----
StateAfterConstructErrCached(st) == [tag |-> "Failed", config |-> st.config, resolver |-> NoResolver]

StateAfterConstructErr(st) == st

ConstructErrShared(c) ==
  LET a == callCell[c]
      hit == {d \in Calls : d = c \/ (pc[d] = "locking" /\ callCell[d] = a)}
  IN
  /\ pc[c] = "constructing"
  /\ result' = [d \in Calls |-> IF d \in hit THEN ErrResult("ConstructErr") ELSE result[d]]
  /\ pc' = [d \in Calls |-> IF d \in hit THEN "done" ELSE pc[d]]
  /\ waiters' = [waiters EXCEPT ![a] = <<>>]
  /\ lockHolder' = Released(a, c)
  /\ callName' = [callName EXCEPT ![c] = "-"]          \* the future's locals are dropped
  /\ captured' = [captured EXCEPT ![c] = NoResolver]
  /\ UNCHANGED <<sysConf, sysReads, confUsers, lastNew, cellState, handleCell,
                 callCell, attempts, lookups, sawFail, engines>>
  /\ callRoot' = [d \in Calls |-> IF d \in hit THEN NoHandle ELSE callRoot[d]]
  /\ UNCHANGED handleRoot
  /\ UNCHANGED iter

ConstructErrRetry(c) ==
  /\ pc[c] = "constructing"
  /\ attempts[c] < 2
  /\ attempts' = [attempts EXCEPT ![c] = @ + 1]
  /\ UNCHANGED <<sysConf, sysReads, confUsers, lastNew, cellState, handleCell, lockHolder,
                 waiters, pc, callCell, callName, captured, result, lookups, sawFail, engines>>
  /\ UNCHANGED <<handleRoot, callRoot>>
  /\ UNCHANGED iter

ConstructErr(c) ==
  LET a == callCell[c] IN
  /\ pc[c] = "constructing"
  /\ cellState' = [cellState EXCEPT ![a] = StateAfterConstructErr(@)]
  /\ result' = [result EXCEPT ![c] = ErrResult("ConstructErr")]
  /\ pc' = [pc EXCEPT ![c] = "done"]
  /\ lockHolder' = Released(a, c)
  /\ sawFail' = [d \in Calls |->
                   IF d # c /\ pc[d] = "locking" /\ callCell[d] = a THEN TRUE ELSE sawFail[d]]
  /\ callName' = [callName EXCEPT ![c] = "-"]          \* the future's locals are dropped
  /\ captured' = [captured EXCEPT ![c] = NoResolver]
  /\ UNCHANGED <<sysConf, sysReads, confUsers, lastNew, handleCell, waiters,
                 callCell, attempts, lookups, engines>>
  /\ callRoot' = [callRoot EXCEPT ![c] = NoHandle]
  /\ UNCHANGED handleRoot
  /\ UNCHANGED iter

\* ---- lookup_ip returns Ok(lookup): Ok(lookup.into_iter()) ----
LookupOk(c) ==
  /\ pc[c] = "lookup"
  /\ result' = [result EXCEPT ![c] = OkResult(EngineAddrs(callName[c]))]
  /\ pc' = [pc EXCEPT ![c] = "done"]
  /\ callName' = [callName EXCEPT ![c] = "-"]          \* the future's locals are dropped
  /\ captured' = [captured EXCEPT ![c] = NoResolver]
  /\ UNCHANGED <<sysConf, sysReads, confUsers, lastNew, cellState, handleCell, lockHolder,
                 waiters, callCell, attempts, lookups, sawFail, engines>>
  /\ callRoot' = [callRoot EXCEPT ![c] = NoHandle]
  /\ UNCHANGED handleRoot
  /\ iter' = [iter EXCEPT ![c] = IntoIter(EngineRecords(callName[c]))]

\* ---- lookup_ip returns Err: `?` returns the boxed error ----
StateAfterLookupErrReset(st) == StateInitWithConfig("cfgA")

StateAfterLookupErr(st) == st

LookupErrShared(c) ==
  LET hit == {d \in Calls : pc[d] = "lookup" /\ callCell[d] = callCell[c]} IN
  /\ pc[c] = "lookup"
  /\ result' = [d \in Calls |-> IF d \in hit THEN ErrResult("LookupErr") ELSE result[d]]
  /\ pc' = [d \in Calls |-> IF d \in hit THEN "done" ELSE pc[d]]
  /\ callName' = [callName EXCEPT ![c] = "-"]          \* the future's locals are dropped
  /\ captured' = [captured EXCEPT ![c] = NoResolver]
  /\ UNCHANGED <<sysConf, sysReads, confUsers, lastNew, cellState, handleCell, lockHolder,
                 waiters, callCell, attempts, lookups, sawFail, engines>>
  /\ callRoot' = [d \in Calls |-> IF d \in hit THEN NoHandle ELSE callRoot[d]]
  /\ UNCHANGED handleRoot
  /\ UNCHANGED iter

LookupErr(c) ==
  /\ pc[c] = "lookup"
  /\ result' = [result EXCEPT ![c] = ErrResult("LookupErr")]
  /\ pc' = [pc EXCEPT ![c] = "done"]
  /\ cellState' = [cellState EXCEPT ![callCell[c]] = StateAfterLookupErr(@)]
  /\ callName' = [callName EXCEPT ![c] = "-"]          \* the future's locals are dropped
  /\ captured' = [captured EXCEPT ![c] = NoResolver]
  /\ UNCHANGED <<sysConf, sysReads, confUsers, lastNew, handleCell, lockHolder,
                 waiters, callCell, attempts, lookups, sawFail, engines>>
  /\ callRoot' = [callRoot EXCEPT ![c] = NoHandle]
  /\ UNCHANGED handleRoot
  /\ UNCHANGED iter

\* ---- the future is dropped at one of its three await points ----
\* State of the cell after the future is dropped: nothing was assigned to *lock.
StateAfterCancelPartial(st) == IF st.tag \in {"Init", "InitWithConfig"} THEN StateReady(NoResolver) ELSE st

StateAfterCancel(st) == st

CancelLeaky(c) ==
  /\ pc[c] \in {"locking", "constructing", "lookup"}
  /\ pc' = [pc EXCEPT ![c] = "cancelled"]
  /\ callName' = [callName EXCEPT ![c] = "-"]
  /\ captured' = [captured EXCEPT ![c] = NoResolver]
  /\ UNCHANGED <<sysConf, sysReads, confUsers, lastNew, cellState, handleCell, lockHolder,
                 waiters, callCell, result, attempts, lookups, sawFail, engines>>
  /\ callRoot' = [callRoot EXCEPT ![c] = NoHandle]
  /\ UNCHANGED handleRoot
  /\ UNCHANGED iter

Cancel(c) ==
  /\ pc[c] \in {"locking", "constructing", "lookup"}
  /\ pc' = [pc EXCEPT ![c] = "cancelled"]
  /\ cellState' = [cellState EXCEPT ![callCell[c]] = StateAfterCancel(@)]
  /\ waiters' = [waiters EXCEPT ![callCell[c]] = RemoveFrom(@, c)]
  /\ lockHolder' = Released(callCell[c], c)
  /\ callName' = [callName EXCEPT ![c] = "-"]          \* the future's locals are dropped
  /\ captured' = [captured EXCEPT ![c] = NoResolver]
  /\ UNCHANGED <<sysConf, sysReads, confUsers, lastNew, handleCell,
                 callCell, result, attempts, lookups, sawFail, engines>>
  /\ callRoot' = [callRoot EXCEPT ![c] = NoHandle]
  /\ UNCHANGED handleRoot
  /\ UNCHANGED iter

\* ---- the caller iterates the Response of a successful call to its end ----
Collect(c) ==
  /\ pc[c] = "done" /\ result[c].kind = "Ok"
  /\ iter' = [iter EXCEPT ![c] = Drain(@)]
  /\ UNCHANGED <<sysConf, sysReads, confUsers, lastNew, cellState, handleCell, handleRoot,
                 lockHolder, waiters, pc, callRoot, callCell, callName, captured, result,
                 attempts, lookups, sawFail, engines>>

Next ==
  \/ \E o \in {"ok", "err"} : New(o)
  \/ \E cfg \in ExplicitConfigs : WithConfig(cfg)
  \/ \E h \in Handles : Clone(h)
  \/ \E c \in Calls, h \in Handles : PollReady(c, h)
  \/ \E c \in Calls, h \in Handles, n \in Names : Call(c, h, n)
  \/ \E c \in Calls, o \in {"ok", "err"} : Acquire(c, o)
  \/ \E c \in Calls : ConstructOk(c)
  \/ \E c \in Calls : ConstructErr(c)
  \/ \E c \in Calls : LookupOk(c)
  \/ \E c \in Calls : LookupErr(c)
  \/ \E c \in Calls : Cancel(c)
  \/ \E c \in Calls : Collect(c)

Spec == Init /\ [][Next]_vars

\* ---- fairness: the runtime polls every woken future, and every engine
\* construction returns; the lookup of call StuckCall may never return and no
\* caller is obliged to cancel ----
StuckCall == CHOOSE c \in Calls : \A d \in Calls : c <= d

Terminated(c) == pc[c] \in {"done", "cancelled", "panicked"}

FairStuck ==
  /\ \A c \in Calls : WF_vars(\E o \in {"ok", "err"} : Acquire(c, o))
  /\ \A c \in Calls : WF_vars(ConstructOk(c) \/ ConstructErr(c))
  /\ \A c \in Calls \ {StuckCall} : WF_vars(LookupOk(c) \/ LookupErr(c))

FairSpecStuck == Init /\ [][Next]_vars /\ FairStuck

\* ---- fairness with every lookup returning ----
FairAll ==
  /\ FairStuck
  /\ WF_vars(LookupOk(StuckCall) \/ LookupErr(StuckCall))

FairSpec == Init /\ [][Next]_vars /\ FairAll

InFlight(c) == pc[c] \in {"locking", "constructing", "lookup"}

\* ---- properties ----
InitTags == {"Init", "InitWithConfig"}
Holding == {"constructing"}

\* C1: every cell has at most one engine built for it, a Ready cell holds
\* exactly that engine, and every call that bound a resolver bound the one
\* stored in its cell's Ready state.
C1_SingleConstruction ==
  /\ \A a \in Cells : Cardinality(EnginesOf(a)) <= 1
  /\ \A a \in Cells : cellState[a].tag = "Ready" <=> EnginesOf(a) # {}
  /\ \A a \in Cells : cellState[a].tag = "Ready" => EnginesOf(a) = {cellState[a].resolver}
  /\ \A c \in Calls : captured[c] # NoResolver => cellState[callCell[c]] = StateReady(captured[c])

\* all calls of the model ran as concurrent first callers and are in their
\* lookup together, on one engine built by exactly one of them
C1_Witness ==
  /\ \A c \in Calls : pc[c] = "lookup" /\ captured[c] = 1
  /\ Cardinality({c \in Calls : attempts[c] = 1}) = 1
  /\ Len(engines) = 1

\* C2: a call whose lookup is in progress does not hold the lock of its cell;
\* the holder of a lock is always between lock().await and drop(lock).
C2_NoLockDuringLookup ==
  /\ \A c \in Calls : pc[c] = "lookup" => lockHolder[callCell[c]] # c
  /\ \A a \in Cells : lockHolder[a] # NoCall => pc[lockHolder[a]] \in Holding

\* two lookups in progress, one by the call that built the engine and one by a
\* call that found Ready, and the lock of their cell is free
C2_Witness ==
  \E c, d \in Calls :
    /\ pc[c] = "lookup" /\ attempts[c] = 1
    /\ pc[d] = "lookup" /\ attempts[d] = 0
    /\ callCell[c] = callCell[d]
    /\ lockHolder[callCell[c]] = NoCall

\* C3: a Ready cell keeps its state in every step, and a cell changes state
\* only from Init or InitWithConfig to Ready (besides being created).
C3_ReadyIsStable ==
  [][\A a \in Cells :
       /\ cellState[a].tag = "Ready" => cellState'[a] = cellState[a]
       /\ (cellState[a].tag # "None" /\ cellState'[a] # cellState[a])
            => (cellState[a].tag \in InitTags /\ cellState'[a].tag = "Ready")]_vars

\* a Ready cell that has seen a lookup failure and a call cancelled in its lookup
C3_Witness ==
  \E c, d \in Calls :
    /\ result[c].kind = "LookupErr"
    /\ cellState[callCell[c]].tag = "Ready" /\ callCell[d] = callCell[c]
    /\ pc[d] = "cancelled" /\ lookups[d] = 1

\* C4: a call starts an engine construction only while no engine has been
\* built for its cell, and no cell ever has more than one engine.
C4_NoReconstruction ==
  /\ [](\A a \in Cells : Cardinality(EnginesOf(a)) <= 1)
  /\ [][\A c \in Calls : attempts'[c] > attempts[c] => EnginesOf(callCell'[c]) = {}]_vars
  /\ [](\A c \in Calls : pc[c] = "constructing" => EnginesOf(callCell[c]) = {})

\* a call that built the engine has returned, and a later call on the cell
\* returned successfully without constructing
C4_Witness ==
  \E c, d \in Calls :
    /\ c < d /\ callCell[c] = callCell[d]
    /\ attempts[c] = 1 /\ result[c].kind = "Ok"
    /\ attempts[d] = 0 /\ result[d].kind = "Ok"

\* C5: with the lookup of StuckCall allowed never to return, eventually no
\* other call is left waiting for the lock, constructing or in its lookup: each
\* of them that was started has terminated.
C5_LookupsIndependent ==
  <>[](\A d \in Calls \ {StuckCall} : ~InFlight(d))

\* StuckCall built the engine and is still in its lookup, while a call that
\* took the lock after it has completed its own lookup on the same engine
C5_Witness ==
  \E d \in Calls \ {StuckCall} :
    /\ pc[StuckCall] = "lookup" /\ attempts[StuckCall] = 1
    /\ callCell[d] = callCell[StuckCall]
    /\ attempts[d] = 0 /\ lookups[d] = 1 /\ result[d].kind = "Ok"

\* C6: a step in which a construction fails returns ConstructErr to that
\* call, leaves every cell state as it was, and frees the lock; a call that
\* gets the lock of a non-Ready cell always starts a construction.
C6_FailedConstructionRetries ==
  /\ [][\A c \in Calls :
          (pc[c] = "constructing" /\ pc'[c] = "done")
            => /\ result'[c].kind = "ConstructErr"
               /\ cellState' = cellState
               /\ cellState[callCell[c]].tag \in InitTags
               /\ lockHolder'[callCell[c]] = NoCall]_vars
  /\ [][\A c \in Calls :
          (pc[c] = "locking" /\ pc'[c] \notin {"locking", "cancelled"}
             /\ cellState[callCell[c]].tag # "Ready")
            => pc'[c] = "constructing" /\ attempts'[c] = attempts[c] + 1]_vars

\* one call returned ConstructErr and a later call on the same cell is
\* constructing again
C6_Witness ==
  \E c, d \in Calls :
    /\ callCell[c] = callCell[d]
    /\ result[c].kind = "ConstructErr"
    /\ pc[d] = "constructing" /\ attempts[d] = 1

\* C7 (as stated): every call that was waiting for the lock while another
\* call's construction failed ends with a construction error.
C7_AllConcurrentCallsFail ==
  \A d \in Calls : (sawFail[d] /\ pc[d] = "done") => result[d].kind = "ConstructErr"

\* C7 (amended): a failed construction gives ConstructErr to the call that
\* made the attempt and to no other call, and leaves the cell non-Ready; the
\* calls waiting for the lock stay pending and make their own attempt.
C7_OnlyAttemptingCallFails ==
  /\ [][\A c \in Calls :
          (pc[c] = "constructing" /\ pc'[c] = "done")
            => /\ result'[c].kind = "ConstructErr"
               /\ cellState'[callCell[c]].tag \in InitTags
               /\ \A d \in Calls \ {c} : pc'[d] = pc[d] /\ result'[d] = result[d]]_vars
  /\ [](\A d \in Calls : result[d].kind = "ConstructErr" => attempts[d] = 1)

\* a call waited while another call's construction failed, then built the
\* engine itself and returned addresses
C7_Witness ==
  \E c, d \in Calls :
    /\ callCell[c] = callCell[d]
    /\ result[c].kind = "ConstructErr"
    /\ sawFail[d] /\ attempts[d] = 1 /\ result[d].kind = "Ok"

\* C8: a step in which a lookup fails returns LookupErr to that call, changes
\* no cell state, engine or lock, and no other call; a call that returns from
\* its lookup returns Ok or LookupErr.
C8_LookupErrIsLocal ==
  /\ [][\A c \in Calls :
          (pc[c] = "lookup" /\ pc'[c] = "done" /\ result'[c].kind # "Ok")
            => /\ result'[c].kind = "LookupErr"
               /\ cellState' = cellState /\ engines' = engines /\ lockHolder' = lockHolder
               /\ \A d \in Calls \ {c} : pc'[d] = pc[d] /\ result'[d] = result[d]]_vars
  /\ [](\A c \in Calls : (pc[c] = "done" /\ lookups[c] = 1) => result[c].kind \in {"Ok", "LookupErr"})

\* a lookup failed, the cell is still Ready, and a later call on the same cell
\* returned the addresses of its name
C8_Witness ==
  \E c, d \in Calls :
    /\ c < d /\ callCell[c] = callCell[d]
    /\ result[c].kind = "LookupErr"
    /\ result[d] = OkResult(EngineAddrs("good.test"))
    /\ cellState[callCell[c]].tag = "Ready"

\* C9: when SYSTEM_CONF is an error the latest new() returned an error and no
\* cell is in state Init; no call ever panics in new_resolver.
C9_ConfigErrorAtConstruction ==
  /\ sysConf = "err" => (lastNew = "err" /\ \A a \in Cells : cellState[a].tag # "Init")
  /\ lastNew = "ok" => sysConf = "ok"
  /\ \A a \in Cells : cellState[a].tag = "Init" => sysConf = "ok"
  /\ \A c \in Calls : pc[c] # "panicked"

\* new() failed on the system configuration and resolve calls have run since
C9_Witness ==
  /\ sysConf = "err" /\ lastNew = "err"
  /\ \E c \in Calls : pc[c] = "lookup"

\* C10: with_config leaves SYSTEM_CONF untouched; a call that inspects an
\* InitWithConfig cell starts a construction without touching SYSTEM_CONF, and
\* the engine built for the cell has the cell's stored config.
C10_ExplicitConfigOnly ==
  /\ [][\A a \in Cells :
          (cellState[a].tag = "None" /\ cellState'[a].tag = "InitWithConfig")
            => UNCHANGED <<sysConf, sysReads, confUsers>>]_vars
  /\ [][\A c \in Calls :
          (pc[c] = "locking" /\ pc'[c] \notin {"locking", "cancelled"}
             /\ cellState[callCell[c]].tag = "InitWithConfig")
            => /\ UNCHANGED <<sysConf, sysReads, confUsers>>
               /\ pc'[c] = "constructing"]_vars
  /\ [][\A a \in Cells :
          (cellState[a].tag = "InitWithConfig" /\ cellState'[a].tag = "Ready")
            => /\ engines'[cellState'[a].resolver].config = cellState[a].config
               /\ UNCHANGED <<sysConf, sysReads, confUsers>>]_vars
  /\ [](\A a \in Cells : cellState[a].tag = "InitWithConfig" => a \notin confUsers)

\* the system configuration read failed, and a call on a with_config adapter
\* returned addresses from an engine built from the explicit config
C10_Witness ==
  \E c \in Calls :
    /\ sysConf = "err"
    /\ result[c].kind = "Ok"
    /\ engines[cellState[callCell[c]].resolver].config \in ExplicitConfigs
    /\ callCell[c] \notin confUsers

\* C11: read_system_conf() runs at most once; once SYSTEM_CONF is set it never
\* changes; while it is an error no new() returns Ok and no Init cell appears.
C11_SystemConfReadOnce ==
  /\ [](sysReads <= 1 /\ (sysConf = "unread" <=> sysReads = 0))
  /\ [][sysConf # "unread" => (sysConf' = sysConf /\ sysReads' = sysReads)]_vars
  /\ [][sysConf = "err" => (lastNew' # "ok" /\ \A a \in Cells : cellState'[a].tag # "Init")]_vars

\* SYSTEM_CONF was dereferenced by new() and again by a resolve call on the
\* adapter new() returned, and was read once
C11_Witness ==
  /\ sysReads = 1 /\ sysConf = "ok"
  /\ ByNew \in confUsers
  /\ \E a \in Cells : a \in confUsers /\ cellState[a].tag = "Ready"

\* C12: dropping a future during its construction leaves every cell state and
\* the engines as they were and frees the lock; a Ready cell always holds an
\* engine that a completed construction built for it.
C12_CancelledConstructionLeavesInit ==
  /\ [][\A c \in Calls :
          (pc[c] = "constructing" /\ pc'[c] = "cancelled")
            => /\ cellState' = cellState
               /\ cellState[callCell[c]].tag \in InitTags
               /\ engines' = engines
               /\ lockHolder'[callCell[c]] = NoCall]_vars
  /\ [](\A a \in Cells : cellState[a].tag = "Ready" => cellState[a].resolver \in EnginesOf(a))

\* a call was dropped during its construction, and a successor on the same
\* cell is constructing from the still uninitialized state
C12_Witness ==
  \E c, d \in Calls :
    /\ pc[c] = "cancelled" /\ attempts[c] = 1 /\ lookups[c] = 0
    /\ callCell[d] = callCell[c]
    /\ pc[d] = "constructing"
    /\ cellState[callCell[c]].tag \in InitTags

\* C15: new() and with_config() create a cell in Init or InitWithConfig
\* without building an engine or starting a construction; an engine is built
\* only by a step of a call that was constructing.
C15_NoEngineBeforeFirstCall ==
  /\ [][\A a \in Cells :
          (cellState[a].tag = "None" /\ cellState'[a].tag # "None")
            => /\ cellState'[a].tag \in InitTags
               /\ engines' = engines
               /\ attempts' = attempts]_vars
  /\ [][Len(engines') > Len(engines)
          => \E c \in Calls : pc[c] = "constructing" /\ attempts[c] = 1 /\ pc'[c] = "lookup"]_vars
  /\ [](\A a \in Cells : EnginesOf(a) # {} => \E c \in Calls : callCell[c] = a /\ attempts[c] >= 1)

\* an adapter exists and its first call has started, and no construction has
\* been attempted yet
C15_Witness ==
  /\ \E a \in Cells : cellState[a].tag \in InitTags
  /\ \E c \in Calls : pc[c] = "locking"
  /\ \A c \in Calls : attempts[c] = 0
  /\ engines = <<>>

\* C18: a call inside engine construction holds the lock of its cell, so at
\* most one call per cell is constructing.
C18_ConstructionSerialized ==
  /\ \A c \in Calls : pc[c] = "constructing" => lockHolder[callCell[c]] = c
  /\ \A c, d \in Calls :
       (pc[c] = "constructing" /\ pc[d] = "constructing" /\ callCell[c] = callCell[d]) => c = d

\* one call is constructing while another waits for the lock of the same cell
C18_Witness ==
  \E c, d \in Calls :
    /\ pc[c] = "constructing" /\ pc[d] = "locking"
    /\ callCell[c] = callCell[d]
    /\ waiters[callCell[c]] = <<d>>

\* C19: a call starts at most one construction and at most one lookup; a call
\* that returned a construction error made no lookup; a terminated call takes
\* no further step.
C19_NoInternalRetry ==
  /\ [](\A c \in Calls : attempts[c] <= 1 /\ lookups[c] <= 1)
  /\ [](\A c \in Calls : result[c].kind = "ConstructErr" => (attempts[c] = 1 /\ lookups[c] = 0))
  /\ [][\A c \in Calls :
          (pc[c] = "constructing" /\ attempts'[c] # attempts[c]) => FALSE]_vars
  /\ [][\A c \in Calls :
          Terminated(c) => (pc'[c] = pc[c] /\ attempts'[c] = attempts[c]
                            /\ lookups'[c] = lookups[c] /\ result'[c] = result[c])]_vars

\* one call returned a construction error and another a lookup error
C19_Witness ==
  \E c, d \in Calls :
    /\ result[c].kind = "ConstructErr" /\ pc[c] = "done"
    /\ result[d].kind = "LookupErr" /\ pc[d] = "done" /\ attempts[d] = 1

\* C13: dropping a future that waits for the lock or constructs under it takes
\* it out of the queue and frees the lock; with every construction and lookup
\* returning, eventually no call is left waiting for the lock.
C13_CancelDoesNotBlockOthers ==
  /\ [][\A c \in Calls :
          (pc[c] \in {"locking", "constructing"} /\ pc'[c] = "cancelled")
            => /\ lockHolder'[callCell[c]] # c
               /\ \A i \in 1..Len(waiters'[callCell[c]]) : waiters'[callCell[c]][i] # c]_vars
  /\ <>[](\A d \in Calls : pc[d] # "locking")

\* a call was dropped during its construction, and another call on the same
\* cell then built the engine and returned addresses
C13_Witness ==
  \E c, d \in Calls :
    /\ pc[c] = "cancelled" /\ attempts[c] = 1 /\ lookups[c] = 0
    /\ callCell[d] = callCell[c]
    /\ attempts[d] = 1 /\ result[d].kind = "Ok"

\* C20: no terminated call holds a lock, a call in flight leaves flight only
\* by terminating, and with every construction and lookup returning,
\* eventually no call is in flight: every started call has terminated.
C20_EveryCallTerminates ==
  /\ [](\A a \in Cells : lockHolder[a] # NoCall => ~Terminated(lockHolder[a]))
  /\ [][\A c \in Calls : (InFlight(c) /\ pc'[c] # pc[c]) => (InFlight(c)' \/ Terminated(c)')]_vars
  /\ <>[](\A c \in Calls : ~InFlight(c))

\* one call returned a construction error, another was dropped while it held
\* the lock, and the lock is free
C20_Witness ==
  \E c, d \in Calls :
    /\ result[c].kind = "ConstructErr"
    /\ pc[d] = "cancelled" /\ attempts[d] = 1 /\ lookups[d] = 0
    /\ callCell[c] = callCell[d]
    /\ lockHolder[callCell[c]] = NoCall

\* C14: all handles cloned from one adapter point to one cell; a call in
\* flight works on the cell of the adapter it was invoked on, whichever clone
\* it was invoked through; calls in flight on one adapter that have bound a
\* resolver bound the same one, the one in that cell's Ready state.
C14_ClonesShareState ==
  /\ \A g, h \in Handles :
       (handleRoot[g] # NoHandle /\ handleRoot[g] = handleRoot[h]) => handleCell[g] = handleCell[h]
  /\ \A c \in Calls : callRoot[c] # NoHandle => callCell[c] = handleCell[callRoot[c]]
  /\ \A c, d \in Calls :
       (/\ captured[c] # NoResolver /\ captured[d] # NoResolver
        /\ callRoot[c] = callRoot[d])
         => (captured[c] = captured[d] /\ cellState[callCell[d]] = StateReady(captured[c]))

\* an adapter has a clone; one call on the adapter built the engine, and
\* another found Ready and is in its lookup on that engine without having
\* constructed
C14_Witness ==
  \E c, d \in Calls, g, h \in Handles :
    /\ g # h /\ handleRoot[g] = callRoot[c] /\ handleRoot[h] = callRoot[d]
    /\ callRoot[c] = callRoot[d]
    /\ pc[c] = "lookup" /\ pc[d] = "lookup"
    /\ attempts[c] = 1 /\ attempts[d] = 0
    /\ captured[c] = captured[d]

\* C16: poll_ready answers Ready(Ok) for the state of every existing adapter,
\* whether or not its lock is held; no caller is ever left pending, and the
\* step changes nothing but the caller's own position.
C16_AlwaysReady ==
  /\ [](\A h \in Handles : handleCell[h] # NoCell => PollResult(cellState[handleCell[h]]) = "ReadyOk")
  /\ [](\A c \in Calls : pc[c] # "pending")
  /\ [][\A c \in Calls :
          (pc[c] = "idle" /\ pc'[c] \notin {"idle", "locking"})
            => /\ pc'[c] = "ready"
               /\ UNCHANGED <<sysConf, sysReads, confUsers, lastNew, cellState, handleCell,
                              handleRoot, lockHolder, waiters, callRoot, callCell, callName,
                              captured, result, attempts, lookups, sawFail, engines, iter>>]_vars

\* poll_ready has answered Ready(Ok) while another call holds the lock of a
\* still uninitialized adapter and constructs
C16_Witness ==
  \E c, d \in Calls :
    /\ pc[c] = "ready"
    /\ pc[d] = "constructing" /\ lockHolder[callCell[d]] = d
    /\ cellState[callCell[d]].tag \in InitTags

\* C17 (as stated): whenever the caller iterates the Response of a successful
\* call, for the first time or again after a completed iteration, it gets the
\* addresses of the lookup.
C17_EveryIterationYieldsAddrs ==
  \A c \in Calls : result[c].kind = "Ok" => SeqToSet(Yield(iter[c])) = result[c].addrs

\* C17 (amended): a successful call returns an iterator, positioned at the
\* start, over exactly the records lookup_ip returned for its hostname;
\* iterating it the first time yields exactly those addresses, iterating it
\* after that yields nothing, and iterating makes no lookup and changes no
\* result.
C17_FirstIterationYieldsAddrs ==
  /\ [][\A c \in Calls :
          (pc[c] = "lookup" /\ result'[c].kind = "Ok")
            => /\ result'[c].addrs = EngineAddrs(callName[c])
               /\ iter'[c] = [records |-> EngineRecords(callName[c]), index |-> 0]]_vars
  /\ [](\A c \in Calls : (result[c].kind = "Ok" /\ iter[c].index = 0)
          => (Yield(iter[c]) = iter[c].records /\ SeqToSet(Yield(iter[c])) = result[c].addrs))
  /\ [](\A c \in Calls : (result[c].kind = "Ok" /\ iter[c].index # 0)
          => (iter[c].index = Len(iter[c].records) /\ Yield(iter[c]) = <<>>))
  /\ [][\A c \in Calls : (pc[c] = "done" /\ iter'[c] # iter[c])
          => (lookups' = lookups /\ result' = result /\ pc' = pc)]_vars

\* the Response of a successful call for "good.test" has been iterated to its
\* end once, after the one lookup the call made
C17_Witness ==
  \E c \in Calls :
    /\ result[c] = OkResult(EngineAddrs("good.test"))
    /\ iter[c].index = Len(EngineRecords("good.test")) /\ lookups[c] = 1

TypeOK ==
  /\ sysConf \in {"unread", "ok", "err"}
  /\ \A c \in Calls : pc[c] \in {"idle", "ready", "pending", "locking", "constructing",
                                  "lookup", "done", "cancelled", "panicked"}
====
